---- MODULE Spec2Model ----
(***************************************************************************)
(* flowy-storage (frontend/rust-lib/flowy-storage/src/lib.rs):             *)
(*   - object_from_disk: derive (ObjectIdentity, ObjectValue) from a file  *)
(*   - StorageObject / ObjectValueSupabase: from_file, from_bytes,         *)
(*     file_size, mime_type                                                *)
(* against a small filesystem that the environment changes at will.        *)
(*                                                                         *)
(* Strings that the code inspects (paths, extensions, file ids) are        *)
(* sequences of one-character strings; strings it only stores and returns  *)
(* (workspace ids, file names, MIME strings) are TLA+ strings.  Byte       *)
(* sequences are sequences of 0..255.  A u64 is a sequence of 8 bytes,     *)
(* least significant first.                                                *)
(***************************************************************************)
EXTENDS Integers, Sequences, FiniteSets, TLC

VARIABLES
  target,   \* the build's target_arch: "native" or "wasm32" (lines 23, 31)
  fs,       \* the filesystem: path -> entry
  last,     \* the latest object_from_disk call: arguments, file seen, outcome
  prev,     \* the latest successful object_from_disk call before it
  obj,      \* the StorageObject the caller holds, or NoObject
  made,     \* the constructor call that built obj
  query,    \* the latest file_size() or mime_type() call on obj
  before    \* the file_size() or mime_type() call on obj before it

vars == <<target, fs, last, prev, obj, made, query, before>>

(***************************************************************************)
(* u64 arithmetic, as used by fxhash::hash on a 64-bit target.             *)
(***************************************************************************)

\* TLC re-evaluates an operator's argument at every use: Once({e}) is e
\* evaluated a single time, and the operators below bind their arguments
\* with it (v \in {e}) before using them.
Once(S) == CHOOSE v \in S : TRUE

\* the 8 bytes of a u64 given as a function on 1..8
Bytes8(f) == <<f[1], f[2], f[3], f[4], f[5], f[6], f[7], f[8]>>

RECURSIVE BitXor(_, _, _)
\* a ^ b on n-bit naturals
BitXor(a, b, n) ==
  IF n = 0 THEN 0
  ELSE (((a % 2) + (b % 2)) % 2) + 2 * BitXor(a \div 2, b \div 2, n - 1)

\* u64 ^ u64
xor64(a0, b0) ==
  Once({Bytes8([i \in 1..8 |-> BitXor(a[i], b[i], 8)]) : a \in {a0}, b \in {b0}})

\* u64::rotate_left(5)
rotate_left5(w0) ==
  Once({Bytes8([i \in 1..8 |->
                 ((w[i] * 32) % 256) + (w[IF i = 1 THEN 8 ELSE i - 1] \div 8)])
        : w \in {w0}})

RECURSIVE ColumnSum(_, _, _, _)
\* sum of a[i] * b[k + 1 - i] for i in 1..n
ColumnSum(a, b, k, n) ==
  IF n = 0 THEN 0 ELSE a[n] * b[k + 1 - n] + ColumnSum(a, b, k, n - 1)

RECURSIVE MulBytes(_, _, _, _)
\* bytes k..8 of a * b, given the carry into byte column k
MulBytes(a, b, k, carry) ==
  IF k > 8 THEN <<>>
  ELSE Once({<<t % 256>> \o MulBytes(a, b, k + 1, t \div 256)
             : t \in {ColumnSum(a, b, k, k) + carry}})

\* u64::wrapping_mul
wrapping_mul(a0, b0) == Once({MulBytes(a, b, 1, 0) : a \in {a0}, b \in {b0}})

RECURSIVE NatBytes(_, _)
\* the low n bytes of the natural v, least significant first
NatBytes(v, n) ==
  IF n = 0 THEN <<>> ELSE <<v % 256>> \o NatBytes(v \div 256, n - 1)

\* `v as u64`
u64(v) == NatBytes(v, 8)

\* a slice of at most 8 bytes read native-endian (little-endian) and widened
widen(bytes0) ==
  Once({Bytes8([i \in 1..8 |-> IF i <= Len(bytes) THEN bytes[i] ELSE 0])
        : bytes \in {bytes0}})

\* fxhash: const SEED64: u64 = 0x51_7c_c1_b7_27_22_0a_95
SEED64 == <<149, 10, 34, 39, 183, 193, 124, 81>>

\* fxhash: HashWord for u64: rotate_left(ROTATE).bitxor(word).wrapping_mul(SEED64)
hash_word(hash, word) == wrapping_mul(xor64(rotate_left5(hash), word), SEED64)

RECURSIVE write64(_, _)
\* fxhash: write64(hash, bytes): 8-byte words, then a 4-, a 2- and a 1-byte tail
write64(hash0, bytes0) ==
  Once({ IF Len(bytes) >= 8
           THEN write64(hash_word(hash, widen(SubSeq(bytes, 1, 8))),
                        SubSeq(bytes, 9, Len(bytes)))
         ELSE IF Len(bytes) >= 4
           THEN write64(hash_word(hash, widen(SubSeq(bytes, 1, 4))),
                        SubSeq(bytes, 5, Len(bytes)))
         ELSE IF Len(bytes) >= 2
           THEN write64(hash_word(hash, widen(SubSeq(bytes, 1, 2))),
                        SubSeq(bytes, 3, Len(bytes)))
         ELSE IF Len(bytes) >= 1
           THEN hash_word(hash, widen(bytes))
         ELSE hash
       : hash \in {hash0}, bytes \in {bytes0} })

\* fxhash::hash(&content) for content: Vec<u8> on a 64-bit target: Hash for a
\* slice writes the length prefix (write_usize), then the bytes (write)
fxhash(content) == write64(hash_word(u64(0), u64(Len(content))), content)

RECURSIVE DivTen(_, _, _)
\* long division by 10 of bytes i..1 of the u64 w, with the remainder r of the
\* bytes above carried in: <<remainder>> \o quotient bytes 1..i
DivTen(w, i, r) ==
  IF i = 0 THEN <<r>>
  ELSE Once({DivTen(w, i - 1, cur % 10) \o <<cur \div 10>>
             : cur \in {r * 256 + w[i]}})

Digit(d) == <<"0", "1", "2", "3", "4", "5", "6", "7", "8", "9">>[d + 1]

RECURSIVE DecimalDigits(_)
\* the decimal digits of a u64, most significant first (none for zero)
DecimalDigits(w0) ==
  Once({ IF w = u64(0) THEN <<>>
         ELSE Once({DecimalDigits(Tail(qr)) \o <<Digit(Head(qr))>>
                    : qr \in {DivTen(w, 8, 0)}})
       : w \in {w0} })

\* Display for usize: hash.to_string()
to_string(w) == IF w = u64(0) THEN <<"0">> ELSE DecimalDigits(w)

(***************************************************************************)
(* Option<T>, and the pieces of std::path::Path the code uses (Unix).       *)
(***************************************************************************)

None == [some |-> FALSE]
Some(v) == [some |-> TRUE, val |-> v]

\* Option::unwrap_or
unwrap_or(opt, default) == IF opt.some THEN opt.val ELSE default

\* the largest i with s[i] = c, and 0 when c does not occur in s
LastIndexOf(s, c) ==
  LET at == {i \in 1..Len(s) : s[i] = c}
  IN IF at = {} THEN 0 ELSE CHOOSE i \in at : \A j \in at : j <= i

RECURSIVE Split(_, _, _)
\* the pieces of s between the occurrences of sep; cur is the piece under way
Split(s, sep, cur) ==
  IF s = <<>> THEN <<cur>>
  ELSE IF Head(s) = sep THEN <<cur>> \o Split(Tail(s), sep, <<>>)
  ELSE Split(Tail(s), sep, cur \o <<Head(s)>>)

\* Path::file_name: the last component when it is a normal one; empty
\* components and "." are skipped by Path::components, ".." is ParentDir
file_name(path) ==
  LET comps == SelectSeq(Split(path, "/", <<>>),
                         LAMBDA c : c # <<>> /\ c # <<".">>)
  IN IF comps = <<>> \/ comps[Len(comps)] = <<".", ".">> THEN None
     ELSE Some(comps[Len(comps)])

\* extension, but taking whatever follows the last "." of the file name,
\* a leading "." included
extension_after_any_dot(path) ==
  LET name == file_name(path)
      dot == LastIndexOf(name.val, ".")
  IN IF ~name.some \/ dot = 0 THEN None
     ELSE Some(SubSeq(name.val, dot + 1, Len(name.val)))

\* Path::extension: the part of the file name after its last ".", if the
\* name has a "." that is not its first character
extension(path) ==
  LET name == file_name(path)
      dot == LastIndexOf(name.val, ".")
  IN IF ~name.some \/ dot <= 1 THEN None
     ELSE Some(SubSeq(name.val, dot + 1, Len(name.val)))

\* str::to_ascii_lowercase on one character (UniCase compares this way)
Lower(c) ==
  LET upper == <<"A", "B", "C", "D", "E", "F", "G", "H", "I", "J", "K", "L", "M",
                 "N", "O", "P", "Q", "R", "S", "T", "U", "V", "W", "X", "Y", "Z">>
      lower == <<"a", "b", "c", "d", "e", "f", "g", "h", "i", "j", "k", "l", "m",
                 "n", "o", "p", "q", "r", "s", "t", "u", "v", "w", "x", "y", "z">>
      at == {i \in 1..26 : upper[i] = c}
  IN IF at = {} THEN c ELSE lower[CHOOSE i \in at : TRUE]

(***************************************************************************)
(* mime / mime_guess.  A Mime is its type and subtype.                      *)
(***************************************************************************)

Mime(type, subtype) == [type |-> type, subtype |-> subtype]

\* mime::APPLICATION_OCTET_STREAM
APPLICATION_OCTET_STREAM == Mime("application", "octet-stream")

\* Display for Mime
mime_to_string(m) == m.type \o "/" \o m.subtype

\* a few rows of mime_guess's extension table (MIME_TYPES); any other
\* extension has no row
MIME_TYPES ==
  { <<<<"p", "d", "f">>, Mime("application", "pdf")>>,
    <<<<"t", "x", "t">>, Mime("text", "plain")>>,
    <<<<"p", "n", "g">>, Mime("image", "png")>> }

\* mime_guess::from_ext: no guess for "", else the case-insensitive table row
from_ext(ext) ==
  LET key == [i \in 1..Len(ext) |-> Lower(ext[i])]
      rows == {r \in MIME_TYPES : r[1] = key}
  IN IF ext = <<>> \/ rows = {} THEN None ELSE Some((CHOOSE r \in rows : TRUE)[2])

\* mime_guess::from_path: the guess for the path's extension
from_path(path) ==
  LET ext == extension(path) IN IF ext.some THEN from_ext(ext.val) ELSE None

\* MimeGuess::first_or_octet_stream
first_or_octet_stream(guess) == unwrap_or(guess, APPLICATION_OCTET_STREAM)

(***************************************************************************)
(* The inputs and the filesystem.                                           *)
(***************************************************************************)

\* at most this many paths exist on disk at once
MaxFiles == 1

WorkspaceIds == {"ws1", "ws2"}
FileNames == {"note.txt"}
DeclaredMimes == {"text/plain", "not a mime"}

ReportPdf == <<"r", "e", "p", "o", "r", "t", ".", "p", "d", "f">>
Note == <<"n", "o", "t", "e">>
AXyz123 == <<"a", ".", "x", "y", "z", "1", "2", "3">>
DotPdf == <<".", "p", "d", "f">>
Paths == {ReportPdf, Note, AXyz123, DotPdf}

Hello == <<104, 101, 108, 108, 111>>
Contents == {<<>>, Hello}

\* what a path names: nothing, a regular file (with its bytes, its length as
\* the filesystem keeps it, and whether this process may open it) or a directory
Absent == [kind |-> "absent", readable |-> FALSE, content |-> <<>>, len |-> 0]
RegularFile(content, readable) ==
  [kind |-> "file", readable |-> readable, content |-> content, len |-> Len(content)]
Directory == [kind |-> "dir", readable |-> TRUE, content |-> <<>>, len |-> 4096]

Present(fsys) == {p \in Paths : fsys[p].kind # "absent"}

\* io::Result
Ok(v) == [kind |-> "Ok", val |-> v]
Err(e) == [kind |-> "Err", error |-> e]
\* a panic unwinding out of the call
Panic(msg) == [kind |-> "Panic", msg |-> msg]

\* open, but creating the file when it is missing (OpenOptions::create)
open_or_create(fsys, path) ==
  IF fsys[path].kind = "absent" THEN Ok(RegularFile(<<>>, TRUE))
  ELSE IF ~fsys[path].readable THEN Err("PermissionDenied")
  ELSE Ok(fsys[path])

\* tokio::fs::File::open (read-only): the file, or the io::Error
open(fsys, path) ==
  IF fsys[path].kind = "absent" THEN Err("NotFound")
  ELSE IF ~fsys[path].readable THEN Err("PermissionDenied")
  ELSE Ok(fsys[path])

\* read_to_end, but a single read into a 4-byte buffer
read_once(file) ==
  IF file.kind = "dir" THEN Err("IsADirectory")
  ELSE LET got == SubSeq(file.content, 1, IF Len(file.content) < 4 THEN Len(file.content) ELSE 4)
       IN Ok([n |-> Len(got), buf |-> got])

\* AsyncReadExt::read_to_end: reads until end-of-stream; a directory opens
\* but cannot be read
read_to_end(file) ==
  IF file.kind = "dir" THEN Err("IsADirectory")
  ELSE Ok([n |-> Len(file.content), buf |-> file.content])

\* std::fs::metadata(path): needs no permission on the file itself
metadata(fsys, path) ==
  IF fsys[path].kind = "absent" THEN Err("NotFound")
  ELSE Ok([len |-> fsys[path].len])

\* fxhash and Display evaluated once for each content a file can hold
KnownHashes == [c \in Contents |-> fxhash(c)]
KnownDecimals == [c \in Contents |-> to_string(KnownHashes[c])]

\* fxhash::hash(&content)
hash_of(content) ==
  IF content \in Contents THEN KnownHashes[content] ELSE fxhash(content)

\* hash.to_string()
decimal_of(hash) ==
  LET known == {c \in Contents : KnownHashes[c] = hash}
  IN IF known # {} THEN KnownDecimals[CHOOSE c \in known : TRUE] ELSE to_string(hash)

\* From<std::io::Error> for FlowyError (flowy-error), applied by `?`
FlowyError_from_io(e) == [code |-> "IOError", msg |-> e]

(***************************************************************************)
(* object_from_disk.  A call yields its result, the diagnostic records it   *)
(* emitted (info!) and the filesystem operations it performed.              *)
(***************************************************************************)

\* the wasm32 stub, but returning an empty object instead of todo!()
object_from_disk_wasm32_empty(workspace_id, local_file_path, fsys) ==
  [result |-> Ok([identity |-> [workspace_id |-> workspace_id,
                                file_id |-> to_string(fxhash(<<>>)),
                                ext |-> <<>>],
                  value |-> [raw |-> <<>>, mime |-> APPLICATION_OCTET_STREAM]]),
   log |-> <<>>,
   io |-> <<>>]

\* #[cfg(target_arch = "wasm32")]: todo!()
object_from_disk_wasm32(workspace_id, local_file_path, fsys) ==
  [result |-> Panic("not implemented: object_from_disk is not implemented for wasm32"),
   log |-> <<>>,
   io |-> <<>>]

\* object_from_disk, but hashing the extension's length along with the content
object_from_disk_hashing_ext(workspace_id, local_file_path, fsys) ==
  LET ext == unwrap_or(extension(local_file_path), <<>>)
      file == open(fsys, local_file_path)
      read == read_to_end(file.val)
      content == read.val.buf
      mime == first_or_octet_stream(from_path(local_file_path))
      hash == fxhash(content \o <<Len(ext)>>)
  IN IF file.kind = "Err" THEN
       [result |-> Err(FlowyError_from_io(file.error)), log |-> <<>>, io |-> <<"open">>]
     ELSE IF read.kind = "Err" THEN
       [result |-> Err(FlowyError_from_io(read.error)), log |-> <<>>,
        io |-> <<"open", "read_to_end">>]
     ELSE
       [result |-> Ok([identity |-> [workspace_id |-> workspace_id,
                                     file_id |-> to_string(hash),
                                     ext |-> ext],
                       value |-> [raw |-> content, mime |-> mime]]),
        log |-> <<[n |-> read.val.n, path |-> local_file_path]>>,
        io |-> <<"open", "read_to_end">>]

\* #[cfg(not(target_arch = "wasm32"))]
object_from_disk_native(workspace_id, local_file_path, fsys) ==
  LET ext == unwrap_or(extension(local_file_path), <<>>)
      file == open(fsys, local_file_path)
      read == read_to_end(file.val)
      content == read.val.buf
      mime == first_or_octet_stream(from_path(local_file_path))
      hash == hash_of(content)
  IN IF file.kind = "Err" THEN
       [result |-> Err(FlowyError_from_io(file.error)), log |-> <<>>, io |-> <<"open">>]
     ELSE IF read.kind = "Err" THEN
       [result |-> Err(FlowyError_from_io(read.error)), log |-> <<>>,
        io |-> <<"open", "read_to_end">>]
     ELSE
       [result |-> Ok([identity |-> [workspace_id |-> workspace_id,
                                     file_id |-> decimal_of(hash),
                                     ext |-> ext],
                       value |-> [raw |-> content, mime |-> mime]]),
        log |-> <<[n |-> read.val.n, path |-> local_file_path]>>,
        io |-> <<"open", "read_to_end">>]

object_from_disk(arch, workspace_id, local_file_path, fsys) ==
  IF arch = "wasm32" THEN object_from_disk_wasm32(workspace_id, local_file_path, fsys)
  ELSE object_from_disk_native(workspace_id, local_file_path, fsys)

(***************************************************************************)
(* StorageObject and ObjectValueSupabase.                                   *)
(***************************************************************************)

\* ObjectValueSupabase::File { file_path }
File(file_path) == [tag |-> "File", file_path |-> file_path]
\* ObjectValueSupabase::Bytes { bytes, mime }
Bytes(bytes, mime) == [tag |-> "Bytes", bytes |-> bytes, mime |-> mime]

\* mime_type, but parsing the declared string and falling back when it is no MIME type
mime_type_validated(value, fsys) ==
  IF value.tag = "File"
    THEN mime_to_string(first_or_octet_stream(from_path(value.file_path)))
    ELSE IF value.mime \in {"text/plain", "application/pdf", "image/png"}
      THEN value.mime
      ELSE mime_to_string(APPLICATION_OCTET_STREAM)

\* mime_type, but guessing only for a file that exists
mime_type_if_exists(value, fsys) ==
  IF value.tag = "File"
    THEN IF fsys[value.file_path].kind = "absent"
           THEN mime_to_string(APPLICATION_OCTET_STREAM)
           ELSE mime_to_string(first_or_octet_stream(from_path(value.file_path)))
    ELSE value.mime

\* ObjectValueSupabase::mime_type(&self); the filesystem is there, the code
\* does not look at it
mime_type(value, fsys) ==
  IF value.tag = "File"
    THEN mime_to_string(first_or_octet_stream(from_path(value.file_path)))
    ELSE value.mime

\* from_file, but with workspace_id and file_name the wrong way round
from_file_swapped(workspace_id, file_name_, file_path) ==
  [workspace_id |-> file_name_, file_name |-> workspace_id, value |-> File(file_path)]

\* StorageObject::from_file
from_file(workspace_id, file_name_, file_path) ==
  [workspace_id |-> workspace_id, file_name |-> file_name_, value |-> File(file_path)]

\* StorageObject::from_bytes
from_bytes(workspace_id, file_name_, bytes, mime) ==
  [workspace_id |-> workspace_id, file_name |-> file_name_, value |-> Bytes(bytes, mime)]

\* file_size, but opening and reading the file to count its bytes
file_size_by_reading(self, fsys) ==
  IF self.value.tag = "File"
    THEN LET file == open(fsys, self.value.file_path)
             read == read_to_end(file.val)
         IN IF file.kind = "Err" \/ read.kind = "Err"
              THEN Panic("called Result::unwrap() on an Err value")
              ELSE Ok(read.val.n)
    ELSE Ok(Len(self.value.bytes))

\* StorageObject::file_size(&self) -> u64; Result::unwrap panics on Err
file_size(self, fsys) ==
  IF self.value.tag = "File"
    THEN LET md == metadata(fsys, self.value.file_path)
         IN IF md.kind = "Err"
              THEN Panic("called Result::unwrap() on an Err value")
              ELSE Ok(md.val.len)
    ELSE Ok(Len(self.value.bytes))

(***************************************************************************)
(* The state machine.                                                       *)
(***************************************************************************)

NoCall == [op |-> "none"]
NoObject == [tag |-> "none"]

Init ==
  /\ target \in {"native", "wasm32"}
  /\ fs = [p \in Paths |-> Absent]
  /\ last = NoCall
  /\ prev = NoCall
  /\ obj = NoObject
  /\ made = NoCall
  /\ query = NoCall
  /\ before = NoCall

\* the environment writes (creates, overwrites, truncates) a regular file
FsWrite(p, content) ==
  /\ fs[p].kind # "dir"
  /\ p \in Present(fs) \/ Cardinality(Present(fs)) < MaxFiles
  /\ fs' = [fs EXCEPT ![p] =
              RegularFile(content, IF fs[p].kind = "file" THEN fs[p].readable ELSE TRUE)]
  /\ UNCHANGED <<target, last, prev, obj, made, query, before>>

\* the environment removes a file or a directory
FsRemove(p) ==
  /\ p \in Present(fs)
  /\ fs' = [fs EXCEPT ![p] = Absent]
  /\ UNCHANGED <<target, last, prev, obj, made, query, before>>

\* the environment grants or revokes this process's permission to read a file
FsChmod(p) ==
  /\ fs[p].kind = "file"
  /\ fs' = [fs EXCEPT ![p].readable = ~fs[p].readable]
  /\ UNCHANGED <<target, last, prev, obj, made, query, before>>

\* the environment creates a directory
FsMkdir(p) ==
  /\ fs[p].kind = "absent"
  /\ Cardinality(Present(fs)) < MaxFiles
  /\ fs' = [fs EXCEPT ![p] = Directory]
  /\ UNCHANGED <<target, last, prev, obj, made, query, before>>

\* a caller awaits object_from_disk(workspace_id, local_file_path)
ObjectFromDisk(workspace_id, local_file_path) ==
  LET out == object_from_disk(target, workspace_id, local_file_path, fs)
  IN /\ last' = [op |-> "object_from_disk",
                 workspace_id |-> workspace_id,
                 path |-> local_file_path,
                 seen |-> fs[local_file_path],
                 result |-> out.result,
                 log |-> out.log,
                 io |-> out.io]
     /\ prev' = IF last.op # "none" /\ last.result.kind = "Ok"
                  THEN [op |-> last.op, workspace_id |-> last.workspace_id,
                        path |-> last.path, result |-> last.result]
                  ELSE prev
     /\ UNCHANGED <<target, fs, obj, made, query, before>>

\* a caller builds StorageObject::from_file(workspace_id, file_name, file_path)
FromFile(workspace_id, name, file_path) ==
  /\ obj' = from_file(workspace_id, name, file_path)
  /\ made' = [op |-> "from_file", workspace_id |-> workspace_id,
              file_name |-> name, file_path |-> file_path]
  /\ query' = NoCall
  /\ before' = NoCall
  /\ UNCHANGED <<target, fs, last, prev>>

\* a caller builds StorageObject::from_bytes(workspace_id, file_name, bytes, mime)
FromBytes(workspace_id, name, bytes, mime) ==
  /\ obj' = from_bytes(workspace_id, name, bytes, mime)
  /\ made' = [op |-> "from_bytes", workspace_id |-> workspace_id,
              file_name |-> name, bytes |-> bytes, mime |-> mime]
  /\ query' = NoCall
  /\ before' = NoCall
  /\ UNCHANGED <<target, fs, last, prev>>

\* what the path of a File object names on disk (Absent for a Bytes object)
Named(object, fsys) ==
  IF object.value.tag = "File" THEN fsys[object.value.file_path] ELSE Absent

Shift(q) == IF q.op = "none" THEN NoCall ELSE [op |-> q.op, result |-> q.result]

\* a caller calls obj.file_size()
FileSize ==
  /\ obj # NoObject
  /\ query' = [op |-> "file_size", seen |-> Named(obj, fs),
               result |-> file_size(obj, fs)]
  /\ before' = Shift(query)
  /\ UNCHANGED <<target, fs, last, prev, obj, made>>

\* a caller calls obj.value.mime_type()
MimeType ==
  /\ obj # NoObject
  /\ query' = [op |-> "mime_type", seen |-> Named(obj, fs),
               result |-> Ok(mime_type(obj.value, fs))]
  /\ before' = Shift(query)
  /\ UNCHANGED <<target, fs, last, prev, obj, made>>

FsStep ==
  \E p \in Paths :
    \/ \E content \in Contents : FsWrite(p, content)
    \/ FsRemove(p)
    \/ FsChmod(p)
    \/ FsMkdir(p)

\* identity derivation against a changing filesystem
Next ==
  \/ FsStep
  \/ \E workspace_id \in WorkspaceIds, path \in Paths : ObjectFromDisk(workspace_id, path)

Spec == Init /\ [][Next]_vars

\* one StorageObject against a changing filesystem
NextObject ==
  \/ FsStep
  \/ \E workspace_id \in WorkspaceIds, name \in FileNames, path \in Paths :
       FromFile(workspace_id, name, path)
  \/ \E workspace_id \in WorkspaceIds, name \in FileNames,
        bytes \in Contents, mime \in DeclaredMimes :
       FromBytes(workspace_id, name, bytes, mime)
  \/ FileSize
  \/ MimeType

\* StorageObject is the same code on every target: its life is followed on one
InitObject == Init /\ target = "native"

SpecObject == InitObject /\ [][NextObject]_vars

(***************************************************************************)
(* Properties of object_from_disk (specification Spec).                     *)
(***************************************************************************)

Called == last.op = "object_from_disk"
Returned == Called /\ last.result.kind = "Ok"
Identity == last.result.val.identity
Value == last.result.val.value

\* C1: two successful object_from_disk calls that read the same bytes return
\* the same file_id, whatever their paths, extensions and workspace ids: the
\* file_id depends on the content alone
C1_FileIdOfContentOnly ==
  (Returned /\ prev.op # "none" /\ prev.result.val.value.raw = Value.raw)
    => prev.result.val.identity.file_id = Identity.file_id

\* two calls on the same bytes under different paths, extensions and workspaces
C1_Witness ==
  /\ Returned /\ prev.op # "none"
  /\ prev.result.val.value.raw = Hello /\ Value.raw = Hello
  /\ prev.path # last.path
  /\ prev.result.val.identity.ext # Identity.ext
  /\ prev.workspace_id # last.workspace_id

\* the file cannot be opened (missing, or not readable by this process) or
\* cannot be read (a directory)
Unreadable(entry) == ~entry.readable \/ entry.kind = "dir"

\* C2: on a path that does not exist, cannot be opened or cannot be read,
\* object_from_disk returns an error of the I/O kind, carries no identity and
\* no value, and has emitted no diagnostic record
C2_UnreadableIsIoError ==
  (Called /\ target = "native" /\ Unreadable(last.seen))
    => /\ last.result.kind = "Err"
       /\ DOMAIN last.result = {"kind", "error"}
       /\ last.result.error.code = "IOError"
       /\ last.log = <<>>

\* a call on a path that does not exist
C2_Witness ==
  /\ Called /\ target = "native"
  /\ last.seen.kind = "absent"
  /\ last.result.kind = "Err"

\* the extension and the MIME type of each path, as the claim gives them
ExpectedExt(path) ==
  IF path = ReportPdf THEN <<"p", "d", "f">>
  ELSE IF path = AXyz123 THEN <<"x", "y", "z", "1", "2", "3">>
  ELSE <<>>

ExpectedMime(path) ==
  IF path = ReportPdf THEN "application/pdf" ELSE "application/octet-stream"

\* C5: a successful object_from_disk(workspace_id, path) returns the given
\* workspace_id, the path's extension ("" when it has none) as ext and the
\* MIME type of that extension (application/octet-stream when it is unknown or
\* missing) as mime, whatever the file holds
C5_IdentityFromPath ==
  Returned
    => /\ Identity.workspace_id = last.workspace_id
       /\ Identity.ext = ExpectedExt(last.path)
       /\ mime_to_string(Value.mime) = ExpectedMime(last.path)

\* report.pdf read successfully: ext "pdf", mime application/pdf
C5_Witness ==
  /\ Returned
  /\ last.path = ReportPdf
  /\ Identity.ext = <<"p", "d", "f">>
  /\ Value.mime = Mime("application", "pdf")

\* C7: on wasm32 no call of object_from_disk returns a pair, with empty data
\* or otherwise; each fails as not implemented without touching the filesystem
C7_Wasm32Unimplemented ==
  (Called /\ target = "wasm32")
    => /\ last.result.kind = "Panic"
       /\ last.result.msg = "not implemented: object_from_disk is not implemented for wasm32"
       /\ last.io = <<>>
       /\ last.log = <<>>

\* a wasm32 call on a file that exists and is readable
C7_Witness ==
  /\ Called /\ target = "wasm32"
  /\ last.seen.kind = "file" /\ last.seen.readable
  /\ last.result.kind # "Ok"

\* fxhash::hash(b"hello".to_vec()) on a 64-bit target, in decimal
HelloFileId ==
  <<"1", "2", "8", "2", "0", "6", "1", "3", "1", "4",
    "7", "8", "2", "1", "9", "1", "6", "9", "3", "5">>

\* C8: a call returns both an identity and a value or neither; when it returns
\* them, raw is the whole content of the file and file_id is the decimal
\* string of the hash of raw
C8_OneReadAllOrNothing ==
  Called
    => IF last.result.kind = "Ok"
         THEN /\ DOMAIN last.result.val = {"identity", "value"}
              /\ Value.raw = last.seen.content
              /\ Identity.file_id = to_string(fxhash(Value.raw))
              /\ Value.raw = Hello => Identity.file_id = HelloFileId
              /\ Value.raw = <<>> => Identity.file_id = <<"0">>
         ELSE "val" \notin DOMAIN last.result

\* a successful read of a file holding "hello"
C8_Witness ==
  /\ Returned
  /\ last.seen.content = Hello
  /\ Value.raw = Hello
  /\ Identity.file_id = HelloFileId

(***************************************************************************)
(* Properties of StorageObject (specification SpecObject).                  *)
(***************************************************************************)

Sized == obj # NoObject /\ query.op = "file_size"
Typed == obj # NoObject /\ query.op = "mime_type"

\* C3: file_size() is the number of bytes held for the Bytes variant (5 for
\* from_bytes("ws1", "note.txt", b"hello", "text/plain"), 0 for no bytes) and
\* the length on disk of the file at file_path for the File variant when that
\* file exists
C3_FileSize ==
  Sized
    => /\ obj.value.tag = "Bytes" => query.result = Ok(Len(made.bytes))
       /\ (obj.value.tag = "File" /\ query.seen.kind = "file")
            => query.result = Ok(Len(query.seen.content))
       /\ obj = [workspace_id |-> "ws1", file_name |-> "note.txt",
                 value |-> [tag |-> "Bytes", bytes |-> Hello, mime |-> "text/plain"]]
            => query.result = Ok(5)
       /\ (obj.value.tag = "Bytes" /\ made.bytes = <<>>) => query.result = Ok(0)

\* the size of a File object whose file exists, holds "hello" and cannot be opened
C3_Witness ==
  /\ Sized
  /\ obj.value.tag = "File"
  /\ query.seen = RegularFile(Hello, FALSE)
  /\ query.result = Ok(5)

\* C4: mime_type() of the Bytes variant is the string the caller declared,
\* valid MIME type or not; mime_type() of the File variant is the type of the
\* path's extension, application/octet-stream when the extension is unknown or
\* missing, whether or not the file exists and whatever it holds
C4_MimeType ==
  Typed
    => /\ obj.value.tag = "Bytes" => query.result = Ok(made.mime)
       /\ obj.value.tag = "File" => query.result = Ok(ExpectedMime(made.file_path))

\* the type of a File object with an unknown extension whose file does not exist
C4_Witness ==
  /\ Typed
  /\ obj.value.tag = "File"
  /\ obj.value.file_path = AXyz123
  /\ query.seen.kind = "absent"
  /\ query.result = Ok("application/octet-stream")

\* C6 (as claimed): no file_size() or mime_type() call ends in a panic; a
\* failure reaches the caller as a typed failure result
C6_FailuresAreTyped == query.op # "none" => query.result.kind # "Panic"

\* C9: the object is what its constructor was given: from_file gives the File
\* variant with that file_path and nothing else, from_bytes the Bytes variant
\* with those bytes and that MIME string and nothing else, both with the given
\* workspace_id and file_name; and it stays so through file_size() and
\* mime_type()
C9_OneVariantAsConstructed ==
  obj # NoObject
    => /\ obj.workspace_id = made.workspace_id
       /\ obj.file_name = made.file_name
       /\ DOMAIN obj = {"workspace_id", "file_name", "value"}
       /\ IF made.op = "from_file"
            THEN obj.value = [tag |-> "File", file_path |-> made.file_path]
            ELSE /\ made.op = "from_bytes"
                 /\ obj.value = [tag |-> "Bytes", bytes |-> made.bytes,
                                 mime |-> made.mime]

\* a File object built for a path that does not exist, after two queries
C9_Witness ==
  /\ obj # NoObject
  /\ made.op = "from_file"
  /\ fs[made.file_path].kind = "absent"
  /\ query.op = "file_size" /\ before.op = "mime_type"

\* C10: every file_size() and mime_type() call on a Bytes object answers from
\* what the object was built with, so two calls of the same query agree
\* whatever happened to the filesystem in between; file_size() of a File
\* object is the length the file has when it is called (a panic when there is
\* no file); mime_type() of a File object gives the same answer every time
C10_BytesStableFileLive ==
  obj # NoObject
    => /\ (obj.value.tag = "Bytes" /\ query.op # "none" /\ before.op = query.op)
            => before.result = query.result
       /\ (obj.value.tag = "Bytes" /\ query.op = "file_size")
            => query.result = Ok(Len(made.bytes))
       /\ (obj.value.tag = "Bytes" /\ query.op = "mime_type")
            => query.result = Ok(made.mime)
       /\ (obj.value.tag = "File" /\ query.op = "file_size")
            => query.result = IF query.seen.kind = "absent"
                                THEN Panic("called Result::unwrap() on an Err value")
                                ELSE Ok(query.seen.len)
       /\ (obj.value.tag = "File" /\ query.op = "mime_type" /\ before.op = "mime_type")
            => before.result = query.result

\* two file_size() calls on one File object that returned different sizes
C10_Witness ==
  /\ obj # NoObject /\ obj.value.tag = "File"
  /\ query.op = "file_size" /\ before.op = "file_size"
  /\ query.result.kind = "Ok" /\ before.result.kind = "Ok"
  /\ query.result # before.result

====
